---- MODULE Spec2Model ----
(***************************************************************************)
(* The PKGCHECK gate of the policy engine: the VERIFY trigger (integrity   *)
(* of installed package files against the package db) and the              *)
(* PKGNOTPRESENT trigger (required packages and versions), modelled from   *)
(* gates/check_package_info.py.                                            *)
(*                                                                         *)
(* The code base runs on the Python 2 interpreter: map() returns a list    *)
(* and oct(n) is "0" followed by the octal digits of n (the trimming of    *)
(* lines 134-137 tolerates a longer octal mode only with that prefix).     *)
(* Strings that the code slices (paths, octal modes) are sequences of      *)
(* characters.                                                             *)
(*                                                                         *)
(* fired is the list of violations of the trigger (_fire appends to it).   *)
(* evaluated is a history variable: the classification of every manifest   *)
(* entry VERIFY has diffed, in order.  pc is "done" once evaluate has      *)
(* returned and "raised" once an exception has left it.                    *)
(***************************************************************************)
EXTENDS Integers, Sequences, FiniteSets, TLC

VARIABLES eval_params, image_obj, pc, checks, extracted_files_json, pkgs,
          pkg_name, records, fired, evaluated, fullmatch, namematch, vermatch

vars == <<eval_params, image_obj, pc, checks, extracted_files_json, pkgs,
          pkg_name, records, fired, evaluated, fullmatch, namematch, vermatch>>

(***************************************************************************)
(* Bounds of the model.                                                    *)
(***************************************************************************)
MaxDirs == 2
MaxPkgs == 2
MaxNames == 2

(***************************************************************************)
(* Python values.                                                          *)
(***************************************************************************)
\* None for string-valued fields, and None for record-valued lookups.
None == "None"
NoneRec == [none |-> TRUE]
\* An absent numeric field (mode, size) is 0: the truth tests of lines 128
\* and 146 treat None and 0 alike.
Truthy(s) == s # None /\ s # ""

RECURSIVE SeqsUpTo(_, _)
SeqsUpTo(S, n) ==
    IF n = 0 THEN {<<>>}
    ELSE LET shorter == SeqsUpTo(S, n - 1)
         IN  shorter \cup {Append(s, x) : s \in shorter, x \in S}

\* What delim_parser returns: the tokens of a comma-delimited string in
\* order, a repeated token as often as it is written
delim_parser(Tokens, n) == SeqsUpTo(Tokens, n)

\* str.startswith
startswith(s, d) == Len(d) <= Len(s) /\ SubSeq(s, 1, Len(d)) = d

\* s[-k:] for 0 < k <= len(s)
LastChars(s, k) == SubSeq(s, Len(s) - k + 1, Len(s))

\* Mutant of lower: the token is left as written
lower_AsWritten(tok) == tok

\* str.lower on the tokens the model draws CHECK_ONLY from
lower(tok) ==
    CASE tok = "MISSING" -> "missing"
      [] tok = "Missing" -> "missing"
      [] tok = "CHANGED" -> "changed"
      [] tok = "Changed" -> "changed"
      [] OTHER -> tok

\* map(lambda x: x.lower(), list) of Python 2: a list
map_lower(s) == [i \in 1..Len(s) |-> lower(s[i])]

OctChar == <<"0", "1", "2", "3", "4", "5", "6", "7">>

RECURSIVE OctDigits(_)
OctDigits(n) ==
    IF n < 8 THEN <<OctChar[n + 1]>>
    ELSE Append(OctDigits(n \div 8), OctChar[(n % 8) + 1])

\* oct(n) for n >= 0: "0" for 0, else "0" followed by the octal digits
oct(n) == IF n = 0 THEN <<"0">> ELSE <<"0">> \o OctDigits(n)

(***************************************************************************)
(* VerifyTrigger                                                           *)
(***************************************************************************)
VerificationStates == {"changed", "missing"}
False == "False"

\* Mutant of OctModesDiffer: the octal strings are compared untrimmed
OctModesDiffer_Untrimmed(db_mode, fs_mode) == oct(db_mode) # oct(fs_mode)

\* Lines 134-139: trim the longer octal string to the length of the shorter
\* one, from the right, and compare.
OctModesDiffer(db_mode, fs_mode) ==
    LET oct_fs_mode == oct(fs_mode)
        oct_db_mode == oct(db_mode)
        fs_trim == IF Len(oct_db_mode) < Len(oct_fs_mode)
                   THEN LastChars(oct_fs_mode, Len(oct_db_mode))
                   ELSE oct_fs_mode
        db_trim == IF Len(oct_db_mode) > Len(oct_fs_mode)
                   THEN LastChars(oct_db_mode, Len(oct_fs_mode))
                   ELSE oct_db_mode
    IN  db_trim # fs_trim

\* Lines 114-120: the observed checksum of the entry's digest algorithm
FsDigest(meta_db_entry, fs_entry) ==
    CASE meta_db_entry.digest_algorithm = "sha256" -> fs_entry.sha256_checksum
      [] meta_db_entry.digest_algorithm = "md5" -> fs_entry.md5_checksum
      [] meta_db_entry.digest_algorithm = "sha1" -> fs_entry.sha1_checksum
      [] OTHER -> None

\* Mutant of ChecksumChanged: the checksum is compared for every entry_type
ChecksumChanged_AnyType(meta_db_entry, fs_entry) ==
    LET fs_digest == FsDigest(meta_db_entry, fs_entry)
    IN  /\ Truthy(meta_db_entry.digest)
        /\ Truthy(fs_digest)
        /\ fs_digest # meta_db_entry.digest

\* Lines 113-123
ChecksumChanged(meta_db_entry, fs_entry) ==
    /\ fs_entry.entry_type \in {"file"}
    /\ LET fs_digest == FsDigest(meta_db_entry, fs_entry)
       IN  /\ Truthy(meta_db_entry.digest)
           /\ Truthy(fs_digest)
           /\ fs_digest # meta_db_entry.digest

\* Lines 126-140
ModeChanged(meta_db_entry, fs_entry) ==
    /\ fs_entry.entry_type \in {"file", "dir"}
    /\ meta_db_entry.mode # 0
    /\ fs_entry.mode # 0
    /\ OctModesDiffer(meta_db_entry.mode, fs_entry.mode)

\* Lines 142-147
SizeChanged(meta_db_entry, fs_entry) ==
    /\ fs_entry.entry_type \in {"file"}
    /\ fs_entry.size # 0
    /\ meta_db_entry.size # 0
    /\ fs_entry.size # meta_db_entry.size

\* Mutant of _diff_pkg_meta_and_file: config files are diffed like the rest
_diff_ConfigNotExempt(meta_db_entry, fs_entry) ==
    IF fs_entry = NoneRec THEN "missing"
    ELSE IF fs_entry.name # meta_db_entry.file_path THEN False
    ELSE IF ChecksumChanged(meta_db_entry, fs_entry) THEN "changed"
    ELSE IF ModeChanged(meta_db_entry, fs_entry) THEN "changed"
    ELSE IF SizeChanged(meta_db_entry, fs_entry) THEN "changed"
    ELSE False

\* Lines 79-150.  meta_db_entry is a db row object, always true in a truth
\* test; fs_entry is the dict of the path, or None.
_diff_pkg_meta_and_file(meta_db_entry, fs_entry) ==
    IF fs_entry = NoneRec THEN "missing"
    ELSE IF fs_entry.name # meta_db_entry.file_path THEN False
    ELSE IF meta_db_entry.is_config_file THEN False
    ELSE IF ChecksumChanged(meta_db_entry, fs_entry) THEN "changed"
    ELSE IF ModeChanged(meta_db_entry, fs_entry) THEN "changed"
    ELSE IF SizeChanged(meta_db_entry, fs_entry) THEN "changed"
    ELSE False

\* Line 61: status and (not checks or status.value in checks)
Reported(status, chk) ==
    /\ status # False
    /\ (chk = <<>> \/ \E i \in 1..Len(chk) : chk[i] = status)

\* Line 54: pkg.pkg_db_entries.filter(file_path.startswith(d)), in db order
EntriesUnder(entries, d) ==
    LET Under(e) == startswith(e.file_path, d)
    IN  SelectSeq(entries, Under)

\* Lines 50-56: the records of one package to check
RECURSIVE RecordsOfDirs(_, _)
RecordsOfDirs(entries, pkg_dirs) ==
    IF pkg_dirs = <<>> THEN <<>>
    ELSE EntriesUnder(entries, Head(pkg_dirs))
             \o RecordsOfDirs(entries, Tail(pkg_dirs))

SelectRecords(pkg, pkg_dirs) ==
    IF pkg_dirs # <<>> THEN RecordsOfDirs(pkg.pkg_db_entries, pkg_dirs)
    ELSE pkg.pkg_db_entries

\* Lines 43-46: image_obj.packages filtered by name, or all of them
SelectPackages(packages, pkg_names) ==
    LET Named(p) == \E i \in 1..Len(pkg_names) : pkg_names[i] = p.name
    IN  IF pkg_names # <<>> THEN SelectSeq(packages, Named) ELSE packages

\* Line 59: extracted_files_json.get(path) on a dict
DictGet(d, path) == IF path \in DOMAIN d THEN d[path] ELSE NoneRec

\* Line 62
VerifyMsg(name, path, status) ==
    [pkg |-> name, entry |-> path, status |-> status]

(***************************************************************************)
(* VerifyTrigger.evaluate, one step per loop iteration.                    *)
(***************************************************************************)
PkgUnchanged == UNCHANGED <<fullmatch, namematch, vermatch>>

\* Lines 30-46
VerifyStart ==
    /\ pc = "start"
    /\ checks' = map_lower(eval_params.CHECK_ONLY)
    /\ extracted_files_json' =
           IF image_obj.fs # NoneRec
           THEN [type |-> "dict", items |-> image_obj.fs.files]
           ELSE [type |-> "list", items |-> <<>>]
    /\ pkgs' = SelectPackages(image_obj.packages, eval_params.PKGS)
    /\ pc' = "pkgs"
    /\ UNCHANGED <<eval_params, image_obj, pkg_name, records, fired, evaluated>>
    /\ PkgUnchanged

\* Lines 48-56: the next package and its records
VerifyNextPkg ==
    /\ pc = "pkgs"
    /\ pkgs # <<>>
    /\ pkg_name' = Head(pkgs).name
    /\ records' = SelectRecords(Head(pkgs), eval_params.DIRS)
    /\ pkgs' = Tail(pkgs)
    /\ pc' = "records"
    /\ UNCHANGED <<eval_params, image_obj, checks, extracted_files_json, fired,
                   evaluated>>
    /\ PkgUnchanged

\* Lines 58-62: one record.  With no filesystem scan extracted_files_json is
\* a list, and .get on a list raises AttributeError.
VerifyRecord ==
    /\ pc = "records"
    /\ records # <<>>
    /\ LET pkg_db_record == Head(records)
       IN  IF extracted_files_json.type = "list"
           THEN /\ pc' = "raised"
                /\ UNCHANGED <<records, fired, evaluated>>
           ELSE LET status == _diff_pkg_meta_and_file(pkg_db_record,
                                  DictGet(extracted_files_json.items,
                                          pkg_db_record.file_path))
                    msg == VerifyMsg(pkg_name, pkg_db_record.file_path, status)
                IN  /\ fired' = IF Reported(status, checks)
                                THEN Append(fired, msg) ELSE fired
                    /\ evaluated' = Append(evaluated, msg)
                    /\ records' = Tail(records)
                    /\ pc' = "records"
    /\ UNCHANGED <<eval_params, image_obj, checks, extracted_files_json, pkgs,
                   pkg_name>>
    /\ PkgUnchanged

\* Line 58: the records of the package are exhausted
VerifyPkgDone ==
    /\ pc = "records"
    /\ records = <<>>
    /\ pc' = "pkgs"
    /\ UNCHANGED <<eval_params, image_obj, checks, extracted_files_json, pkgs,
                   pkg_name, records, fired, evaluated>>
    /\ PkgUnchanged

\* Line 48: the packages are exhausted, evaluate returns
VerifyReturn ==
    /\ pc = "pkgs"
    /\ pkgs = <<>>
    /\ pc' = "done"
    /\ UNCHANGED <<eval_params, image_obj, checks, extracted_files_json, pkgs,
                   pkg_name, records, fired, evaluated>>
    /\ PkgUnchanged

VerifyNext ==
    \/ VerifyStart
    \/ VerifyNextPkg
    \/ VerifyRecord
    \/ VerifyPkgDone
    \/ VerifyReturn

(***************************************************************************)
(* Inputs of VERIFY: the parsed parameters and the image.                  *)
(***************************************************************************)
\* "/e/s/f" and "/e/c"; the directories "/e" and "/e/s"
PathESF == <<"/", "e", "/", "s", "/", "f">>
PathEC == <<"/", "e", "/", "c">>
DirE == <<"/", "e">>
DirES == <<"/", "e", "/", "s">>

\* The parsed DIRS and CHECK_ONLY
DirLists == delim_parser({DirE, DirES}, MaxDirs)
CheckOnlyLists ==
    {<<>>, <<"missing">>, <<"MISSING">>, <<"Changed">>, <<"changed", "Missing">>,
     <<"other">>}

ManifestEntry(path, alg, digest, mode, size, cfg) ==
    [file_path |-> path, digest_algorithm |-> alg, digest |-> digest,
     mode |-> mode, size |-> size, is_config_file |-> cfg]

FsRecord(name, type, sha256, md5, sha1, mode, size) ==
    [name |-> name, entry_type |-> type, sha256_checksum |-> sha256,
     md5_checksum |-> md5, sha1_checksum |-> sha1, mode |-> mode, size |-> size]

InitLocals ==
    /\ pc = "start"
    /\ checks = <<>>
    /\ extracted_files_json = [type |-> "list", items |-> <<>>]
    /\ pkgs = <<>>
    /\ pkg_name = None
    /\ records = <<>>
    /\ fired = <<>>
    /\ evaluated = <<>>
    /\ fullmatch = <<>>
    /\ namematch = <<>>
    /\ vermatch = <<>>

\* Images of one or two packages with plain or config entries, and files that
\* are absent, as recorded, or changed in digest, mode or size.
PlainOrConfig(path) ==
    {ManifestEntry(path, "sha256", "d1", 493, 1, cfg) : cfg \in BOOLEAN}

SameOrChanged(path) ==
    {FsRecord(path, "file", "d1", None, None, 493, 1),
     FsRecord(path, "file", "d2", None, None, 493, 1),
     FsRecord(path, "file", "d1", None, None, 420, 1),
     FsRecord(path, "file", "d1", None, None, 493, 2)}

\* The dicts image_obj.fs.files: partial maps from the paths to records
FsDicts ==
    UNION {{f \in [K -> UNION {SameOrChanged(k) : k \in K}] :
               \A k \in K : f[k] \in SameOrChanged(k)} :
           K \in SUBSET {PathESF, PathEC}}

\* The entries of a package, in path order, each path at most once
EntryLists ==
    LET OfESF == {<<>>} \cup {<<e>> : e \in PlainOrConfig(PathESF)}
        OfEC == {<<>>} \cup {<<e>> : e \in PlainOrConfig(PathEC)}
    IN  {a \o b : a \in OfESF, b \in OfEC}

VerifyImages ==
    LET P == {[name |-> "p", pkg_db_entries |-> es] : es \in EntryLists}
        Q == {[name |-> "q", pkg_db_entries |-> <<e>>] : e \in PlainOrConfig(PathESF)}
        Fs == {NoneRec} \cup
              {[files |-> d] : d \in FsDicts}
        Packages == {<<>>} \cup {<<p>> : p \in P} \cup {<<p, q>> : p \in P, q \in Q}
    IN  {[fs |-> f, packages |-> ps] : f \in Fs, ps \in Packages}

InitVerify ==
    /\ eval_params \in {[PKGS |-> n, DIRS |-> d, CHECK_ONLY |-> c] :
                            n \in {<<>>, <<"q">>}, d \in DirLists,
                            c \in CheckOnlyLists}
    /\ image_obj \in VerifyImages
    /\ InitLocals

SpecVerify == InitVerify /\ [][VerifyNext]_vars

(***************************************************************************)
(* Inputs of the diff of one manifest entry and one filesystem record: an  *)
(* image of one package with one entry, over the whole range of the        *)
(* fields that _diff_pkg_meta_and_file reads.                              *)
(***************************************************************************)
\* 0 (absent), 0o644, 0o755, 0o1755, 0o100755
Modes == {0, 420, 493, 1005, 33261}

\* The observed sha256, md5 and sha1 checksums of a record
Checksums ==
    {<<"d1", "d2", "d2">>, <<"d2", "d1", "d2">>, <<"d2", "d2", "d1">>,
     <<None, "d1", None>>, <<"d2", "d2", None>>}

DiffEntries ==
    {ManifestEntry(PathEC, alg, digest, mode, size, cfg) :
        alg \in {"sha256", "md5", "sha1", None}, digest \in {None, "d1"},
        mode \in Modes, size \in {0, 1}, cfg \in BOOLEAN}

DiffRecords ==
    {FsRecord(name, type, sums[1], sums[2], sums[3], mode, size) :
        name \in {PathEC, PathESF}, type \in {"file", "dir", "slink"},
        sums \in Checksums, mode \in Modes, size \in {0, 1, 2}}

InitDiff ==
    /\ eval_params \in {[PKGS |-> <<>>, DIRS |-> <<>>, CHECK_ONLY |-> c] :
                            c \in {<<>>, <<"MISSING">>}}
    /\ image_obj \in
           {[fs |-> [files |-> d],
             packages |-> <<[name |-> "p", pkg_db_entries |-> <<e>>]>>] :
                e \in DiffEntries,
                d \in {<<>>} \cup {(PathEC :> r) : r \in DiffRecords}}
    /\ InitLocals

SpecDiff == InitDiff /\ [][VerifyNext]_vars

(***************************************************************************)
(* Claims about VERIFY.                                                    *)
(***************************************************************************)
Count(seq, m) == Cardinality({i \in 1..Len(seq) : seq[i] = m})

Packages == {image_obj.packages[i] : i \in 1..Len(image_obj.packages)}
EntriesOf(p) == {p.pkg_db_entries[i] : i \in 1..Len(p.pkg_db_entries)}

\* The manifest entries of the image a VERIFY message is about
EntriesNamed(name, path) ==
    {e \in UNION {EntriesOf(p) : p \in {q \in Packages : q.name = name}} :
        e.file_path = path}

HasFsRecord(path) ==
    image_obj.fs # NoneRec /\ path \in DOMAIN image_obj.fs.files

\* A token of CHECK_ONLY names the classification c, in any letter case
NamesStatus(tok, c) ==
    \/ c = "missing" /\ tok \in {"missing", "MISSING", "Missing"}
    \/ c = "changed" /\ tok \in {"changed", "CHANGED", "Changed"}

\* The status filter is empty or contains c
FilterAdmits(c) ==
    \/ eval_params.CHECK_ONLY = <<>>
    \/ \E i \in 1..Len(eval_params.CHECK_ONLY) :
           NamesStatus(eval_params.CHECK_ONLY[i], c)

\* C1 as claimed: no violation is ever fired for a config-file entry,
\* whatever the filesystem state of its path (absent record included).
C1_ConfigNeverFires ==
    \A i \in 1..Len(fired) :
        \A e \in EntriesNamed(fired[i].pkg, fired[i].entry) : ~e.is_config_file

\* C1 amended: a config-file entry whose path has a filesystem record never
\* fires, whatever the record's digest, mode or size and whatever PKGS, DIRS
\* and CHECK_ONLY are; the only violation a config-file entry can cause is
\* 'missing', when its path has no filesystem record.
C1_ConfigFiresOnlyMissing ==
    \A i \in 1..Len(fired) :
        \A e \in EntriesNamed(fired[i].pkg, fired[i].entry) :
            e.is_config_file =>
                fired[i].status = "missing" /\ ~HasFsRecord(fired[i].entry)

\* A config-file entry whose record differs from it was evaluated and nothing
\* was fired for it.
C1_Witness ==
    /\ pc = "done"
    /\ \E i \in 1..Len(evaluated) :
          /\ HasFsRecord(evaluated[i].entry)
          /\ image_obj.fs.files[evaluated[i].entry].sha256_checksum = "d2"
          /\ \A e \in EntriesNamed(evaluated[i].pkg, evaluated[i].entry) :
                e.is_config_file
          /\ \A j \in 1..Len(fired) : fired[j].entry # evaluated[i].entry

\* The entries VERIFY is to check: of a selected package, under one of DIRS
SelectedPackage(p) ==
    \/ eval_params.PKGS = <<>>
    \/ \E i \in 1..Len(eval_params.PKGS) : eval_params.PKGS[i] = p.name

PassesDirs(e) ==
    \/ eval_params.DIRS = <<>>
    \/ \E i \in 1..Len(eval_params.DIRS) :
           startswith(e.file_path, eval_params.DIRS[i])

\* C2 as claimed: when evaluate returns and the filter admits 'missing',
\* exactly one 'missing' violation has been fired for every selected entry
\* whose path has no filesystem record, for every DIRS list.
C2_ExactlyOneMissing ==
    (pc = "done" /\ image_obj.fs # NoneRec /\ FilterAdmits("missing")) =>
        \A p \in Packages : \A e \in EntriesOf(p) :
            (SelectedPackage(p) /\ PassesDirs(e) /\ ~HasFsRecord(e.file_path)) =>
                Count(fired, VerifyMsg(p.name, e.file_path, "missing")) = 1

\* C5: the violations fired are exactly the evaluated entries classified
\* missing or changed that the status filter admits (empty, or containing the
\* classification in any letter case), in evaluation order.
AdmittedEvaluation(m) == m.status \in VerificationStates /\ FilterAdmits(m.status)

C5_FiredIffAdmitted == fired = SelectSeq(evaluated, AdmittedEvaluation)

\* An upper-case filter let a missing entry through and held a changed one
\* back, after it.
C5_Witness ==
    /\ pc = "done"
    /\ eval_params.CHECK_ONLY = <<"MISSING">>
    /\ \E i, j \in 1..Len(evaluated) :
          /\ i < j
          /\ evaluated[i].status = "changed"
          /\ evaluated[j].status = "missing"
          /\ Count(fired, evaluated[j]) = 1
          /\ Count(fired, evaluated[i]) = 0

\* C9 as claimed: with no filesystem scan VERIFY does not raise, and when it
\* returns every selected entry has been classified missing.
C9_NoScanAllMissing ==
    image_obj.fs = NoneRec =>
        /\ pc # "raised"
        /\ pc = "done" =>
              \A p \in Packages : \A e \in EntriesOf(p) :
                  (SelectedPackage(p) /\ PassesDirs(e)) =>
                      Count(evaluated, VerifyMsg(p.name, e.file_path, "missing")) >= 1

(***************************************************************************)
(* Claims about the diff of one entry and one record (SpecDiff).           *)
(***************************************************************************)
TheEntry == image_obj.packages[1].pkg_db_entries[1]
TheRecord == image_obj.fs.files[TheEntry.file_path]
ChangedMsg == VerifyMsg(image_obj.packages[1].name, TheEntry.file_path, "changed")

\* The diff has classified the entry, against a record of its own name, and
\* the entry is not a config file
Diffed ==
    /\ pc = "done"
    /\ HasFsRecord(TheEntry.file_path)
    /\ TheRecord.name = TheEntry.file_path
    /\ ~TheEntry.is_config_file

Classification == evaluated[1].status

\* The observed checksum of the entry's digest algorithm
Observed ==
    LET sums == [sha256 |-> TheRecord.sha256_checksum,
                 md5 |-> TheRecord.md5_checksum,
                 sha1 |-> TheRecord.sha1_checksum]
    IN  IF TheEntry.digest_algorithm \in DOMAIN sums
        THEN sums[TheEntry.digest_algorithm] ELSE None

DigestMismatch ==
    /\ TheEntry.digest # None
    /\ Observed # None
    /\ Observed # TheEntry.digest

ChangedFiredOnce ==
    /\ Classification = "changed"
    /\ FilterAdmits("changed") => Count(fired, ChangedMsg) = 1

AllAgree ==
    /\ Observed = TheEntry.digest
    /\ TheRecord.mode = TheEntry.mode
    /\ TheRecord.size = TheEntry.size

\* C3 as claimed: a digest mismatch classifies the entry 'changed' and fires
\* one 'changed' violation, for every entry_type of the record; equal digest,
\* mode and size fire nothing.
C3_DigestMismatchAnyType ==
    Diffed =>
        /\ DigestMismatch => ChangedFiredOnce
        /\ AllAgree => fired = <<>>

\* C3 amended: the digest is compared only when the record's entry_type is
\* 'file'.  There a mismatch classifies the entry 'changed' and one 'changed'
\* violation is fired for the evaluation (when the status filter admits
\* 'changed'); for a 'dir' or any other type the digest is not compared, and
\* with equal modes the entry is unchanged in spite of the mismatch.  Equal
\* digest, mode and size fire nothing.
C3_DigestMismatchOfFile ==
    Diffed =>
        /\ (DigestMismatch /\ TheRecord.entry_type = "file") => ChangedFiredOnce
        /\ (DigestMismatch /\ TheRecord.entry_type # "file"
               /\ TheRecord.mode = TheEntry.mode) =>
              Classification = False /\ fired = <<>>
        /\ AllAgree => fired = <<>>

\* A file whose md5 differs from the expected one was reported changed.
C3_Witness ==
    /\ Diffed
    /\ DigestMismatch
    /\ TheEntry.digest_algorithm = "md5"
    /\ TheRecord.entry_type = "file"
    /\ TheRecord.mode = TheEntry.mode
    /\ fired = <<ChangedMsg>>

RECURSIVE NumOctDigits(_)
NumOctDigits(n) == IF n < 8 THEN 1 ELSE 1 + NumOctDigits(n \div 8)

RECURSIVE Pow8(_)
Pow8(k) == IF k = 0 THEN 1 ELSE 8 * Pow8(k - 1)

Smaller(a, b) == IF a < b THEN a ELSE b

\* The trailing k octal digits of the two modes agree
TrailingDigitsAgree(k) ==
    TheEntry.mode % Pow8(k) = TheRecord.mode % Pow8(k)

\* The mode check is reached: a file or a dir, both modes present, and the
\* checksum step found no mismatch
ModeCompared ==
    /\ Diffed
    /\ TheRecord.entry_type \in {"file", "dir"}
    /\ TheEntry.mode # 0
    /\ TheRecord.mode # 0
    /\ ~(DigestMismatch /\ TheRecord.entry_type = "file")

\* The size check finds a difference
SizesDiffer ==
    /\ TheRecord.entry_type = "file"
    /\ TheEntry.size # 0
    /\ TheRecord.size # 0
    /\ TheEntry.size # TheRecord.size

ShorterDigits == NumOctDigits(Smaller(TheEntry.mode, TheRecord.mode))

\* C4 as claimed: the modes are compared on their trailing k octal digits, k
\* the number of octal digits of the shorter mode: agreement there leaves the
\* entry unchanged by the mode check, a difference classifies it 'changed'.
C4_TrailingDigitsOfShorter ==
    ModeCompared =>
        IF TrailingDigitsAgree(ShorterDigits)
        THEN Classification = "changed" => SizesDiffer
        ELSE Classification = "changed"

\* C4 amended: the modes are compared on the trailing characters of their
\* oct() strings, as many as the shorter string has, and the leading "0" of
\* that string is one of them: the k digits of the shorter mode, preceded by
\* a 0, against the trailing k+1 digits of the longer one.  Expected 0o755
\* and observed 0o100755 agree; expected 0o755 and observed 0o1755 differ and
\* the entry is 'changed'.
C4_TrailingCharsOfShorter ==
    ModeCompared =>
        IF TrailingDigitsAgree(ShorterDigits + 1)
        THEN Classification = "changed" => SizesDiffer
        ELSE Classification = "changed"

\* Expected 0o755 against observed 0o100755 was left unchanged.
C4_Witness ==
    /\ ModeCompared
    /\ TheEntry.mode = 493
    /\ TheRecord.mode = 33261
    /\ Classification = False

(***************************************************************************)
(* PkgNotPresentTrigger                                                    *)
(*                                                                         *)
(* A version string is the tuple of its numbers: <<2>> is "2" and <<2, 1>> *)
(* is "2-1" (version and release).                                         *)
(***************************************************************************)
KnownFlavors == {"RHEL"}

\* The release of a version string, 0 when it has none
Release(ver) == IF Len(ver) > 1 THEN ver[2] ELSE 0

\* compare_package_versions raises on a flavor it has no ordering for
CompareFails(flavor) == flavor \notin KnownFlavors

\* compare_package_versions(flavor, pkg_a, ver_a, pkg_b, ver_b): negative,
\* zero or positive
compare_package_versions(flavor, pkg_a, ver_a, pkg_b, ver_b) ==
    IF ver_a[1] # ver_b[1]
    THEN (IF ver_a[1] < ver_b[1] THEN -1 ELSE 1)
    ELSE IF Release(ver_a) # Release(ver_b)
    THEN (IF Release(ver_a) < Release(ver_b) THEN -1 ELSE 1)
    ELSE 0

\* dict.pop(key)
DictPop(d, key) == [k \in DOMAIN d \ {key} |-> d[k]]

\* list.remove(x): the first occurrence of x goes
ListRemove(s, x) ==
    LET i == CHOOSE j \in 1..Len(s) :
                 s[j] = x /\ \A k \in 1..(j - 1) : s[k] # x
    IN  SubSeq(s, 1, i - 1) \o SubSeq(s, i + 1, Len(s))

InList(x, s) == \E i \in 1..Len(s) : s[i] = x

\* dict.items(): the order of a dict is the interpreter's; names in
\* alphabetical order stand for it
NameOrder == <<"a", "b", "c">>
DictKeys(d) == LET In(n) == n \in DOMAIN d IN SelectSeq(NameOrder, In)

\* Lines 179-181
WrongVersionMsg(img_pkg, required) ==
    [kind |-> "wrong_version", match |-> "full", name |-> img_pkg.name,
     present |-> img_pkg.fullversion, required |-> required]

\* Lines 195-197
LowerVersionMsg(img_pkg, required) ==
    [kind |-> "lower_version", match |-> "vers", name |-> img_pkg.name,
     present |-> img_pkg.fullversion, required |-> required]

\* Lines 203, 206-207 and 210; match is the loop that fires the message, and
\* a name-only requirement has no version
NotPresentMsg(match, name, required) ==
    [kind |-> "not_present", match |-> match, name |-> name,
     present |-> <<>>, required |-> required]

\* Lines 176-185: the violations of the exact match of one installed package
FullMatchFires(img_pkg, fm) ==
    IF img_pkg.name \in DOMAIN fm /\ img_pkg.fullversion # fm[img_pkg.name]
    THEN <<WrongVersionMsg(img_pkg, fm[img_pkg.name])>>
    ELSE <<>>

\* Lines 191-197: the comparator is called
ComparatorCalled(img_pkg, vm) ==
    /\ img_pkg.name \in DOMAIN vm
    /\ img_pkg.fullversion # vm[img_pkg.name]

\* Lines 194-197: the violations of the minimum version of one installed
\* package, when the comparator returns
VersMatchFires(img_pkg, vm) ==
    IF /\ ComparatorCalled(img_pkg, vm)
       /\ compare_package_versions(img_pkg.flavor, img_pkg.name, img_pkg.version,
                                   img_pkg.name, vm[img_pkg.name]) < 0
    THEN <<LowerVersionMsg(img_pkg, vm[img_pkg.name])>>
    ELSE <<>>

\* Lines 202-210: one violation for each remaining requirement
RemainingFires(fm, vm, nm) ==
    [i \in 1..Len(DictKeys(fm)) |->
        NotPresentMsg("full", DictKeys(fm)[i], fm[DictKeys(fm)[i]])]
    \o [i \in 1..Len(DictKeys(vm)) |->
        NotPresentMsg("vers", DictKeys(vm)[i], vm[DictKeys(vm)[i]])]
    \o [i \in 1..Len(nm) |-> NotPresentMsg("name", nm[i], <<>>)]

\* Line 175: image_obj.packages.filter(ImagePackage.name.in_(names)).all()
PackagesNamed(packages, names) ==
    LET In(p) == p.name \in names IN SelectSeq(packages, In)

VerifyUnchanged ==
    UNCHANGED <<checks, extracted_files_json, pkg_name, records, evaluated>>

\* Lines 163-175
PkgStart ==
    /\ pc = "start"
    /\ fullmatch' = eval_params.PKGFULLMATCH
    /\ namematch' = eval_params.PKGNAMEMATCH
    /\ vermatch' = eval_params.PKGVERSMATCH
    /\ LET names == DOMAIN eval_params.PKGFULLMATCH
                    \cup {eval_params.PKGNAMEMATCH[i] :
                             i \in 1..Len(eval_params.PKGNAMEMATCH)}
                    \cup DOMAIN eval_params.PKGVERSMATCH
       IN  IF names = {}
           THEN pc' = "done" /\ pkgs' = <<>>
           ELSE pc' = "loop" /\ pkgs' = PackagesNamed(image_obj.packages, names)
    /\ UNCHANGED <<eval_params, image_obj, fired>>
    /\ VerifyUnchanged

\* Lines 176-199: one installed package.  An exception of the comparator is
\* not caught: it leaves evaluate.
PkgStep ==
    /\ pc = "loop"
    /\ pkgs # <<>>
    /\ LET img_pkg == Head(pkgs)
           popped == DictPop(fullmatch, img_pkg.name)
           removed == IF InList(img_pkg.name, namematch)
                      THEN ListRemove(namematch, img_pkg.name) ELSE namematch
       IN  /\ fullmatch' = popped
           /\ namematch' = removed
           /\ IF ComparatorCalled(img_pkg, vermatch) /\ CompareFails(img_pkg.flavor)
              THEN /\ pc' = "raised"
                   /\ fired' = fired \o FullMatchFires(img_pkg, fullmatch)
                   /\ UNCHANGED <<vermatch, pkgs>>
              ELSE /\ fired' = fired \o FullMatchFires(img_pkg, fullmatch)
                                     \o VersMatchFires(img_pkg, vermatch)
                   /\ vermatch' = DictPop(vermatch, img_pkg.name)
                   /\ pkgs' = Tail(pkgs)
                   /\ pc' = "loop"
    /\ UNCHANGED <<eval_params, image_obj>>
    /\ VerifyUnchanged

\* Lines 201-210
PkgRemaining ==
    /\ pc = "loop"
    /\ pkgs = <<>>
    /\ fired' = fired \o RemainingFires(fullmatch, vermatch, namematch)
    /\ pc' = "done"
    /\ UNCHANGED <<eval_params, image_obj, pkgs, fullmatch, namematch, vermatch>>
    /\ VerifyUnchanged

PkgNext ==
    \/ PkgStart
    \/ PkgStep
    \/ PkgRemaining

(***************************************************************************)
(* Inputs of PKGNOTPRESENT.                                                *)
(***************************************************************************)
ImagePackage(name, version, fullversion, flavor) ==
    [name |-> name, version |-> version, fullversion |-> fullversion,
     flavor |-> flavor]

\* Installed packages: versions "1", "2" and "2-1", of a flavor the
\* comparator orders or not; "c" is a package no parameter names
InstalledPackages ==
    {ImagePackage(n, <<fv[1]>>, fv, fl) :
        n \in {"a", "b"}, fv \in {<<1>>, <<2>>, <<2, 1>>},
        fl \in {"RHEL", "other"}}
    \cup {ImagePackage("c", <<1>>, <<1>>, "RHEL")}

\* What barsplit_comma_delim_parser returns: a dict from names to versions
barsplit_comma_delim_parser(Versions) ==
    UNION {[K -> Versions] : K \in SUBSET {"a", "b"}}

InitPkg ==
    /\ eval_params \in
           {[PKGFULLMATCH |-> f, PKGNAMEMATCH |-> n, PKGVERSMATCH |-> v] :
               f \in barsplit_comma_delim_parser({<<1>>, <<2, 1>>}),
               n \in delim_parser({"a", "b"}, MaxNames),
               v \in barsplit_comma_delim_parser({<<2>>, <<2, 1>>})}
    /\ image_obj \in {[fs |-> NoneRec, packages |-> ps] :
                         ps \in SeqsUpTo(InstalledPackages, MaxPkgs)}
    /\ InitLocals

SpecPkg == InitPkg /\ [][PkgNext]_vars

(***************************************************************************)
(* Claims about PKGNOTPRESENT.                                             *)
(***************************************************************************)
\* The evaluation is over: evaluate returned, or an exception left it
Ended == pc \in {"done", "raised"}

InstalledAt(n) ==
    {i \in 1..Len(image_obj.packages) : image_obj.packages[i].name = n}

FirstInstalled(n) ==
    image_obj.packages[CHOOSE i \in InstalledAt(n) : \A j \in InstalledAt(n) : i <= j]

\* The violations fired for name n by the match of the given kind
FiredFor(match, n) ==
    {i \in 1..Len(fired) : fired[i].match = match /\ fired[i].name = n}

\* What the exact match owes the name n, required at version v
ExactMatchOutcome(n, v) ==
    IF InstalledAt(n) = {}
    THEN /\ Count(fired, NotPresentMsg("full", n, v)) = 1
         /\ Cardinality(FiredFor("full", n)) = 1
    ELSE IF FirstInstalled(n).fullversion = v
    THEN FiredFor("full", n) = {}
    ELSE /\ Count(fired, WrongVersionMsg(FirstInstalled(n), v)) = 1
         /\ Cardinality(FiredFor("full", n)) = 1

\* C6 as claimed: for a name required at an exact version and installed at
\* most once, the evaluation fires nothing when the installed full version
\* is the required one, one 'not at the version specified' violation naming
\* both versions (and no 'not present') when it differs, and one 'not
\* present' violation naming the name and the version when it is absent.
C6_ExactMatch ==
    Ended =>
        \A n \in DOMAIN eval_params.PKGFULLMATCH :
            Cardinality(InstalledAt(n)) <= 1 =>
                ExactMatchOutcome(n, eval_params.PKGFULLMATCH[n])

\* What C6 claims does hold of every evaluation that returns.
C6_ExactMatchOnReturn ==
    pc = "done" =>
        \A n \in DOMAIN eval_params.PKGFULLMATCH :
            Cardinality(InstalledAt(n)) <= 1 =>
                ExactMatchOutcome(n, eval_params.PKGFULLMATCH[n])

\* The comparator reports the installed version lower than m
ReportsLower(p, m) ==
    /\ ~CompareFails(p.flavor)
    /\ \/ p.version[1] < m[1]
       \/ p.version[1] = m[1] /\ Release(p.version) < Release(m)

\* What the minimum-version match owes the single installed package p
MinVersionOutcome(p, m) ==
    /\ IF p.fullversion # m /\ ReportsLower(p, m)
       THEN Count(fired, LowerVersionMsg(p, m)) = 1
       ELSE TRUE
    /\ Cardinality(FiredFor("vers", p.name)) =
          (IF p.fullversion # m /\ ReportsLower(p, m) THEN 1 ELSE 0)

\* C7 as claimed: for a name with a minimum version m and a single installed
\* package p of that name, one 'lower version' violation citing p and m is
\* fired if and only if p.fullversion differs from m and the comparator
\* reports installed < required; otherwise none; and never 'not present'.
C7_MinVersion ==
    Ended =>
        \A n \in DOMAIN eval_params.PKGVERSMATCH :
            Cardinality(InstalledAt(n)) = 1 =>
                MinVersionOutcome(FirstInstalled(n), eval_params.PKGVERSMATCH[n])

\* What C7 claims does hold of every evaluation that returns.
C7_MinVersionOnReturn ==
    pc = "done" =>
        \A n \in DOMAIN eval_params.PKGVERSMATCH :
            Cardinality(InstalledAt(n)) = 1 =>
                MinVersionOutcome(FirstInstalled(n), eval_params.PKGVERSMATCH[n])

\* The names each parameter requires
RequiredNames(match) ==
    CASE match = "full" -> DOMAIN eval_params.PKGFULLMATCH
      [] match = "vers" -> DOMAIN eval_params.PKGVERSMATCH
      [] match = "name" -> {eval_params.PKGNAMEMATCH[i] :
                              i \in 1..Len(eval_params.PKGNAMEMATCH)}

MatchKinds == {"full", "name", "vers"}

\* C8 as claimed: a failure of the comparator abandons one comparison only:
\* the evaluation does not end with an error, and every required name that
\* is not installed gets its 'not present' violation.
C8_ComparatorErrorIsLocal ==
    /\ pc # "raised"
    /\ Ended =>
          \A match \in MatchKinds : \A n \in RequiredNames(match) :
              InstalledAt(n) = {} =>
                  \E i \in FiredFor(match, n) : fired[i].kind = "not_present"

\* C10 as claimed: at most one violation per required name and kind of
\* match, the first installed package of the name deciding it; an installed
\* name gets no 'not present' violation.
C10_AtMostOnePerNameAndKind ==
    Ended =>
        \A match \in MatchKinds : \A n \in RequiredNames(match) :
            /\ Cardinality(FiredFor(match, n)) <= 1
            /\ \A i \in FiredFor(match, n) :
                  IF InstalledAt(n) = {}
                  THEN fired[i].kind = "not_present"
                  ELSE /\ fired[i].kind # "not_present"
                       /\ fired[i].present = FirstInstalled(n).fullversion

\* What C10 claims does hold when PKGNAMEMATCH names no package twice.
C10_AtMostOneWithoutRepeatedNames ==
    (\A i, j \in 1..Len(eval_params.PKGNAMEMATCH) :
        eval_params.PKGNAMEMATCH[i] = eval_params.PKGNAMEMATCH[j] => i = j) =>
        C10_AtMostOnePerNameAndKind

====
